---- MODULE Spec2Model ----
(***************************************************************************)
(* The two form components of smart-school: CreateCourseForm and           *)
(* AddStudentForm.  One mounted component instance is modelled; `kind`     *)
(* says which of the two it is.  Both components have the same shape:      *)
(*   - useSWR fetches the list of selectable objects (the options fetch),  *)
(*   - useForm binds the fields to a yup validationSchema,                 *)
(*   - onSubmit = handleSubmit(async () => {...}) validates, builds the    *)
(*     payload, sets isLoading, POSTs and runs the promise chain           *)
(*     .then(res.json).then(onSuccess; notify).catch(notify).finally(...). *)
(* Strings typed into inputs are modelled as tuples of one-character       *)
(* strings so that parsing (Number, yup's cast, yup's email test) is       *)
(* computed and not assumed.                                               *)
(***************************************************************************)
EXTENDS Integers, Sequences, FiniteSets, TLC

VARIABLES
    kind,          \* "course" (CreateCourseForm) or "student" (AddStudentForm)
    values,        \* the form's field values, as returned by watch()
    swr,           \* the state of useSWR: data, error, whether a fetch runs
    fetches,       \* number of GET requests the hook has started
    isLoading,     \* useState<boolean>(false)
    disabled,      \* the submit Button as last rendered: loading={isLoading}
    subs,          \* one record per submit event received by onSubmit
    optionsNotifs, \* 'Could not get ... data' notifications enqueued so far
    busyEdits      \* edits the user made while a POST was in flight

vars == <<kind, values, swr, fetches, isLoading, disabled, subs, optionsNotifs,
          busyEdits>>

(***************************************************************************)
(* Bounds of the model.                                                    *)
(***************************************************************************)
MaxSubmits == 2    \* submit events per run
MaxFetches == 2    \* GET requests of the options hook per run
MaxOptions == 2    \* records the backend holds for the options list
MaxBusyEdits == 1  \* field edits made while a POST is in flight, per run

Kinds == {"course", "student"}

(***************************************************************************)
(* Input alphabets.                                                        *)
(***************************************************************************)
Str0 == << >>
TextInputs == { Str0, <<"x">> }
NumInputs ==
    { <<"0">>, Str0, <<"1">>, <<"1", "2">>, <<"-", "1">>, <<"1", ".", "5">> }
EmailInputs ==
    { Str0, <<"a">>, <<"a", "@">>, <<"a", "@", "b">>, <<"a", "@", "b", ".">>,
      <<"a", "@", "b", ".", "c">> }

(***************************************************************************)
(* JavaScript numbers, as far as the forms need them: NaN, or a signed     *)
(* decimal with one fractional digit.                                      *)
(***************************************************************************)
NaN == [nan |-> TRUE, neg |-> FALSE, whole |-> 0, tenths |-> 0]
Num(neg, w, t) == [nan |-> FALSE, neg |-> neg /\ (w # 0 \/ t # 0), whole |-> w, tenths |-> t]

Digits == {"0", "1", "2", "3", "4", "5", "6", "7", "8", "9"}
DigitVal(c) ==
    CASE c = "0" -> 0 [] c = "1" -> 1 [] c = "2" -> 2 [] c = "3" -> 3
      [] c = "4" -> 4 [] c = "5" -> 5 [] c = "6" -> 6 [] c = "7" -> 7
      [] c = "8" -> 8 [] c = "9" -> 9

AllDigits(s) == Len(s) > 0 /\ \A i \in 1..Len(s) : s[i] \in Digits

RECURSIVE DigitsVal(_)
DigitsVal(s) ==
    IF s = << >> THEN 0
    ELSE DigitsVal(SubSeq(s, 1, Len(s) - 1)) * 10 + DigitVal(s[Len(s)])

\* An unsigned decimal literal: digits, optionally "." and one more digit.
UnsignedDecimal(neg, s) ==
    LET dots == {i \in 1..Len(s) : s[i] = "."} IN
    IF dots = {} THEN
        IF AllDigits(s) THEN Num(neg, DigitsVal(s), 0) ELSE NaN
    ELSE IF Cardinality(dots) = 1 THEN
        LET d == CHOOSE i \in dots : TRUE
            ip == SubSeq(s, 1, d - 1)
            fp == SubSeq(s, d + 1, Len(s))
        IN IF AllDigits(ip) /\ AllDigits(fp) /\ Len(fp) = 1
           THEN Num(neg, DigitsVal(ip), DigitVal(fp[1]))
           ELSE NaN
    ELSE NaN

\* A non-empty numeric string.
StrDecimal(s) ==
    IF s[1] = "-" THEN UnsignedDecimal(TRUE, Tail(s)) ELSE UnsignedDecimal(FALSE, s)

\* Number(x) of JavaScript: the empty string converts to 0.
Number(s) == IF s = Str0 THEN Num(FALSE, 0, 0) ELSE StrDecimal(s)

\* yup.number()'s cast of a string: the empty string becomes NaN.
yupNumberCast(s) == IF s = Str0 THEN NaN ELSE StrDecimal(s)

(***************************************************************************)
(* yup's tests, as the two validationSchema objects chain them.            *)
(***************************************************************************)
\* yup.string().required(): the value is present and not the empty string.
stringRequired(s) == s # Str0

\* yup.number(): the cast value must be a number and not NaN (typeError).
numberTypeCheck(n) == ~n.nan

\* .integer('Needs to be integer')
isInteger(n) == n.tenths = 0

\* .test('Is positive?', 'Needs to be positive', (value) => value > 0)
isPositive(n) == ~n.nan /\ ~n.neg /\ (n.whole > 0 \/ n.tenths > 0)

\* The number schema of capacity / age applied to the raw field value.
numberSchemaNoInteger(raw) ==
    LET n == yupNumberCast(raw) IN numberTypeCheck(n) /\ isPositive(n)
numberSchema(raw) ==
    LET n == yupNumberCast(raw) IN
    numberTypeCheck(n) /\ isInteger(n) /\ isPositive(n)

\* Characters of the pattern behind yup.string().email().
AlNum == {"a", "b", "c", "x"} \cup Digits
LocalChars == AlNum \cup {".", "-", "_", "+"}
DomainChars == AlNum \cup {".", "-"}

\* [local]+ @ label ( . label )*  where a label starts and ends alphanumeric.
matchesEmail(s) ==
    LET ats == {i \in 1..Len(s) : s[i] = "@"} IN
    /\ Cardinality(ats) = 1
    /\ LET at == CHOOSE i \in ats : TRUE
           local == SubSeq(s, 1, at - 1)
           dom == SubSeq(s, at + 1, Len(s))
       IN /\ Len(local) > 0
          /\ \A i \in 1..Len(local) : local[i] \in LocalChars
          /\ Len(dom) > 0
          /\ \A i \in 1..Len(dom) : dom[i] \in DomainChars
          /\ dom[1] \in AlNum
          /\ dom[Len(dom)] \in AlNum
          /\ \A i \in 1..Len(dom) :
                dom[i] = "." =>
                    /\ i > 1 /\ dom[i - 1] \in AlNum
                    /\ i < Len(dom) /\ dom[i + 1] \in AlNum

\* .required('Email is required').email('Invalid email'); the email test
\* itself lets the empty string through, required does not.
emailSchema(s) == stringRequired(s) /\ matchesEmail(s)

\* yup.array<T>().required(): the value is present; the form always holds
\* an array, possibly empty.
arrayRequired(a) == Len(a) >= 0

\* The errors object the resolver returns: the set of failing field names.
courseSchemaErrors(v) ==
    {f \in {"course", "classroom", "teacher"} : ~stringRequired(v[f])}
    \cup (IF numberSchema(v.capacity) THEN {} ELSE {"capacity"})
    \cup (IF arrayRequired(v.students) THEN {} ELSE {"students"})

studentSchemaErrors(v) ==
    (IF stringRequired(v.name) THEN {} ELSE {"name"})
    \cup (IF emailSchema(v.email) THEN {} ELSE {"email"})
    \cup (IF numberSchema(v.age) THEN {} ELSE {"age"})
    \cup (IF arrayRequired(v.courses) THEN {} ELSE {"courses"})

validationSchema(k, v) ==
    IF k = "course" THEN courseSchemaErrors(v) ELSE studentSchemaErrors(v)

(***************************************************************************)
(* The form.                                                               *)
(***************************************************************************)
defaultValues(k) ==
    IF k = "course"
    THEN [course |-> Str0, classroom |-> Str0, capacity |-> <<"0">>,
          teacher |-> Str0, students |-> << >>]
    ELSE [name |-> Str0, email |-> Str0, age |-> <<"0">>,
          gender |-> Str0, courses |-> << >>]

TextFields(k) == IF k = "course" THEN {"course", "classroom", "teacher"}
                 ELSE {"name", "gender"}
NumField(k) == IF k = "course" THEN "capacity" ELSE "age"
ListField(k) == IF k = "course" THEN "students" ELSE "courses"

\* The records GET /api/student (course form) or GET /api/course (student
\* form) returns: objects with an id and further fields.
Backend == [i \in 1..MaxOptions |-> [id |-> i, name |-> <<"x">>]]

\* options={dataStudents || []}
options == IF swr.hasData THEN swr.data ELSE << >>

\* students.map(item => ({ id: item.id }))
mapIdsKeepObject(list) == list
mapIds(list) == [i \in 1..Len(list) |-> [id |-> list[i].id]]

\* const payload = {...}
payload(k, v) ==
    IF k = "course"
    THEN [name |-> v.course, classroom |-> v.classroom,
          capacity |-> Number(v.capacity), teacher |-> v.teacher,
          students |-> mapIds(v.students)]
    ELSE [name |-> v.name, email |-> v.email, age |-> Number(v.age),
          gender |-> v.gender, courses |-> mapIds(v.courses)]

(***************************************************************************)
(* Submissions.  A record of `subs` follows one submit event through       *)
(* handleSubmit: "validating" (the resolver runs), then "invalid" (errors  *)
(* are set, the callback is not called) or "inflight" (the callback ran up *)
(* to fetch()), then "settled" (the promise chain has run).  `trace` is    *)
(* what the callback did, in order.                                        *)
(***************************************************************************)
Ev(name, arg) == [ev |-> name, arg |-> arg]

url(k) == IF k = "course" THEN "/api/course" ELSE "/api/student"
successMessage(k) ==
    IF k = "course" THEN "Course created successfully" ELSE "Student added successfully"
failureMessage(k) ==
    IF k = "course" THEN "Could not create course" ELSE "Could not add student"

\* fetch(url, {method: 'POST', ...})
postCall(k) == << Ev("POST", <<url(k)>>) >>

\* What the server (or the network) can answer to the POST: the fetch
\* rejects, or it resolves with a response of some status whose body parses
\* as JSON or does not.
Responses ==
    { [rejected |-> TRUE, ok |-> FALSE, json |-> FALSE, data |-> "none"] }
    \cup { [rejected |-> FALSE, ok |-> o, json |-> j,
            data |-> IF ~j THEN "none" ELSE IF o THEN "created" ELSE "error"]
           : o \in BOOLEAN, j \in BOOLEAN }

\* .then((res) => res.json()): fulfilled exactly when the fetch resolved and
\* the body parses; the status of the response is not looked at.
jsonFulfilled(resp) == ~resp.rejected /\ resp.json

\* .then((data) => { onSuccess({ data }); enqueueSnackbar(success) }):
\* if the caller's onSuccess throws, the notification is not reached.
onDataNotifyFirst(k, data, throws) ==
    << Ev("enqueueSnackbar", <<successMessage(k), "success">>),
       Ev("onSuccess", <<[data |-> data]>>) >>
onData(k, data, throws) ==
    << Ev("onSuccess", <<[data |-> data]>>) >>
    \o (IF throws THEN << >>
        ELSE << Ev("enqueueSnackbar", <<successMessage(k), "success">>) >>)

\* .catch((e) => { enqueueSnackbar(failure); console.error(e) })
onCatchTwice(k) ==
    << Ev("enqueueSnackbar", <<failureMessage(k), "error">>),
       Ev("enqueueSnackbar", <<failureMessage(k), "error">>) >>
onCatch(k) == << Ev("enqueueSnackbar", <<failureMessage(k), "error">>) >>

\* The chain .then(json).then(onData).catch(onCatch) for one response.
promiseChainCatchFirst(k, resp, throws) ==
    IF jsonFulfilled(resp) THEN onData(k, resp.data, throws) ELSE onCatch(k)
promiseChain(k, resp, throws) ==
    IF jsonFulfilled(resp)
    THEN onData(k, resp.data, throws) \o (IF throws THEN onCatch(k) ELSE << >>)
    ELSE onCatch(k)

\* .finally(() => setIsLoading(false))
onFinallyKeep(loading) == loading
onFinally(loading) == FALSE

Phase(p) == {i \in 1..Len(subs) : subs[i].phase = p}

\* handleSubmit awaits the resolver in microtasks: no other task (a user
\* edit, a network event, a render) runs while one is pending.
NoMicrotask == Phase("validating") = {}

(***************************************************************************)
(* Initial state: the component has just been mounted.                     *)
(***************************************************************************)
Mounted ==
    /\ kind \in Kinds
    /\ swr = [data |-> << >>, hasData |-> FALSE, error |-> 0, fetching |-> TRUE]
    /\ fetches = 1
    /\ isLoading = FALSE
    /\ disabled = FALSE
    /\ subs = << >>
    /\ optionsNotifs = 0
    /\ busyEdits = 0

Init ==
    /\ Mounted
    /\ values = defaultValues(kind)

(***************************************************************************)
(* User edits.                                                             *)
(***************************************************************************)
FieldInputs(k, f) ==
    IF f = NumField(k) THEN NumInputs
    ELSE IF k = "student" /\ f = "email" THEN EmailInputs
    ELSE TextInputs

ScalarFields(k) ==
    TextFields(k) \cup {NumField(k)} \cup (IF k = "student" THEN {"email"} ELSE {})

\* The inputs stay enabled while a POST is in flight; the model bounds how
\* often the user edits then.
CanEdit ==
    /\ NoMicrotask
    /\ Phase("inflight") # {} => busyEdits < MaxBusyEdits

Edited ==
    busyEdits' = IF Phase("inflight") # {} THEN busyEdits + 1 ELSE busyEdits

\* A ControlledInput's onChange; watch() re-renders with the new value.
ChangeField(f, v) ==
    /\ CanEdit
    /\ f \in ScalarFields(kind)
    /\ v \in FieldInputs(kind, f)
    /\ v # values[f]
    /\ values' = [values EXCEPT ![f] = v]
    /\ Edited
    /\ UNCHANGED <<kind, swr, fetches, isLoading, disabled, subs, optionsNotifs>>

\* isOptionEqualToValue={(option, value) => option.id === value.id}
Selected(list, o) == \E i \in 1..Len(list) : list[i].id = o.id
Without(list, o) ==
    LET keep == {i \in 1..Len(list) : list[i].id # o.id}
        Nth(n) == CHOOSE i \in keep : Cardinality({j \in keep : j < i}) = n - 1
    IN [n \in 1..Cardinality(keep) |-> list[Nth(n)]]

\* The ControlledAutocomplete (multiple): picking an option appends it to
\* the selection, picking a selected one removes it.
ToggleOption(n) ==
    /\ CanEdit
    /\ n \in 1..Len(options)
    /\ LET o == options[n]
           f == ListField(kind)
       IN values' = [values EXCEPT ![f] =
                        IF Selected(@, o) THEN Without(@, o) ELSE Append(@, o)]
    /\ Edited
    /\ UNCHANGED <<kind, swr, fetches, isLoading, disabled, subs, optionsNotifs>>

(***************************************************************************)
(* The options fetch: useSWR(key, get).                                    *)
(***************************************************************************)
\* The GET resolves: data is replaced, the error is cleared.
OptionsResolve ==
    /\ NoMicrotask
    /\ swr.fetching
    /\ swr' = [data |-> Backend, hasData |-> TRUE, error |-> 0, fetching |-> FALSE]
    /\ UNCHANGED <<kind, values, fetches, isLoading, disabled, subs, optionsNotifs,
                   busyEdits>>

\* The GET rejects: the hook returns a new error and keeps the data it has;
\* the useEffect on [error] enqueues 'Could not get ... data'.
OptionsRejectSilent ==
    /\ NoMicrotask
    /\ swr.fetching
    /\ swr' = [swr EXCEPT !.error = fetches, !.fetching = FALSE]
    /\ UNCHANGED <<kind, values, fetches, isLoading, disabled, subs, busyEdits,
                   optionsNotifs>>
OptionsReject ==
    /\ NoMicrotask
    /\ swr.fetching
    /\ swr' = [swr EXCEPT !.error = fetches, !.fetching = FALSE]
    /\ optionsNotifs' = optionsNotifs + 1
    /\ UNCHANGED <<kind, values, fetches, isLoading, disabled, subs, busyEdits>>

\* The hook fetches again (on focus, on reconnect, after an error).
Revalidate ==
    /\ NoMicrotask
    /\ ~swr.fetching
    /\ fetches < MaxFetches
    /\ fetches' = fetches + 1
    /\ swr' = [swr EXCEPT !.fetching = TRUE]
    /\ UNCHANGED <<kind, values, isLoading, disabled, subs, optionsNotifs, busyEdits>>

(***************************************************************************)
(* Submission.                                                             *)
(***************************************************************************)
\* A submit event reaches <form onSubmit={onSubmit}>.  The only gate is the
\* rendered submit button: a disabled button submits nothing.  onSubmit
\* itself does not read isLoading.  The closure of the last render holds
\* the watched values.
Submit ==
    /\ ~disabled
    /\ Len(subs) < MaxSubmits
    /\ subs' = Append(subs, [phase |-> "validating", values |-> <<values>>,
                             body |-> << >>, resp |-> << >>, trace |-> << >>])
    /\ UNCHANGED <<kind, values, swr, fetches, isLoading, disabled, optionsNotifs,
                   busyEdits>>

\* handleSubmit calls the callback only when the resolver found no error.
passesAlways(errors) == TRUE
passes(errors) == errors = {}

\* The resolver finishes for the oldest pending submit event; with no errors
\* the callback runs up to the fetch() call.  The closure (values, payload)
\* lives until the request settles.
Validated ==
    /\ Phase("validating") # {}
    /\ LET i == CHOOSE j \in Phase("validating") :
                    \A m \in Phase("validating") : j <= m
           s == subs[i]
           v == s.values[1]
       IN IF passes(validationSchema(kind, v))
          THEN /\ subs' = [subs EXCEPT ![i] =
                              [s EXCEPT !.phase = "inflight",
                                        !.body = << payload(kind, v) >>,
                                        !.trace = postCall(kind)]]
               /\ isLoading' = TRUE
          ELSE /\ subs' = [subs EXCEPT ![i] =
                              [s EXCEPT !.phase = "invalid", !.values = << >>]]
               /\ isLoading' = isLoading
    /\ UNCHANGED <<kind, values, swr, fetches, disabled, optionsNotifs, busyEdits>>

\* The POST of submission i settles with `resp`; the whole promise chain
\* runs.  `throws` says whether the caller's onSuccess throws (it is only
\* called when the body parsed).
Settle(i, resp, throws) ==
    /\ NoMicrotask
    /\ i \in Phase("inflight")
    /\ resp \in Responses
    /\ throws \in BOOLEAN
    /\ throws => ~resp.rejected /\ resp.json
    /\ subs' = [subs EXCEPT ![i] =
                   [@ EXCEPT !.phase = "settled",
                             !.values = << >>,
                             !.body = << >>,
                             !.resp = << [resp |-> resp, throws |-> throws] >>,
                             !.trace = @ \o promiseChain(kind, resp, throws)]]
    /\ isLoading' = onFinally(isLoading)
    /\ UNCHANGED <<kind, values, swr, fetches, disabled, optionsNotifs, busyEdits>>

\* React renders the state: <Button loading={isLoading} type="submit">.
Render ==
    /\ NoMicrotask
    /\ disabled # isLoading
    /\ disabled' = isLoading
    /\ UNCHANGED <<kind, values, swr, fetches, isLoading, subs, optionsNotifs,
                   busyEdits>>

(***************************************************************************)
(* Spec: the form from mount on, the user editing freely, followed through *)
(* its first submit event until handleSubmit has refused it or the POST    *)
(* has been issued.                                                        *)
(***************************************************************************)
FirstSubmit == subs = << >> /\ Submit

OptionsFetch ==
    \/ OptionsResolve
    \/ OptionsReject
    \/ Revalidate

Next ==
    \/ \E f \in {"course", "classroom", "teacher", "capacity",
                 "name", "email", "age", "gender"} :
          \E v \in TextInputs \cup NumInputs \cup EmailInputs : ChangeField(f, v)
    \/ \E n \in 1..MaxOptions : ToggleOption(n)
    \/ OptionsFetch
    \/ FirstSubmit
    \/ Validated

Spec == Init /\ [][Next]_vars

(***************************************************************************)
(* SpecSession: the asynchronous life of the submissions.  The user has    *)
(* filled in the form (left it at its defaults, filled it in validly, or   *)
(* typed a fractional number) and submits it up to MaxSubmits times while  *)
(* the options fetch, the POSTs and the renders take their course.         *)
(***************************************************************************)
FilledForms(k) ==
    LET num == NumField(k)
        valid == IF k = "course"
                 THEN [course |-> <<"x">>, classroom |-> <<"x">>, capacity |-> <<"1">>,
                       teacher |-> <<"x">>, students |-> << >>]
                 ELSE [name |-> <<"x">>, email |-> <<"a", "@", "b">>, age |-> <<"1">>,
                       gender |-> Str0, courses |-> << >>]
    IN { defaultValues(k), valid, [valid EXCEPT ![num] = <<"1", ".", "5">>] }

InitSession ==
    /\ Mounted
    /\ values \in FilledForms(kind)

NextSession ==
    \/ Submit
    \/ Validated
    \/ OptionsFetch
    \/ \E i \in 1..MaxSubmits : \E resp \in Responses : \E throws \in BOOLEAN :
          Settle(i, resp, throws)
    \/ Render

SpecSession == InitSession /\ [][NextSession]_vars

(***************************************************************************)
(* SpecLive: SpecSession with the scheduling the runtime provides: pending *)
(* microtasks run, and a request that was issued settles.                  *)
(***************************************************************************)
SettleSome ==
    \E i \in 1..MaxSubmits : \E resp \in Responses : \E throws \in BOOLEAN :
        Settle(i, resp, throws)

SpecLive == SpecSession /\ WF_vars(Validated) /\ WF_vars(SettleSome)

(***************************************************************************)
(* Vocabulary of the properties.                                           *)
(***************************************************************************)
Calls(t, name) == {j \in 1..Len(t) : t[j].ev = name}
Notifs(t, variant) ==
    {j \in 1..Len(t) : t[j].ev = "enqueueSnackbar" /\ t[j].arg[2] = variant}
Response(i) == subs[i].resp[1].resp
Throws(i) == subs[i].resp[1].throws
Issued == Phase("inflight") \cup Phase("settled")

\* Submission i leaves validation in this step.
Decided(i) ==
    /\ i \in 1..Len(subs)
    /\ subs[i].phase = "validating"
    /\ subs'[i].phase # "validating"

(***************************************************************************)
(* C1: at most one submit POST is in flight at any time, also for a second *)
(* submit event that arrives before the first has set or rendered the      *)
(* loading flag.                                                           *)
(***************************************************************************)
C1_OnePostInFlight == Cardinality(Phase("inflight")) <= 1

(***************************************************************************)
(* C2: a POST is issued only for a submit event whose values satisfy the   *)
(* validation schema; a submit event with a schema violation issues no     *)
(* POST, leaves the loading flag alone and calls neither onSuccess nor a   *)
(* notification, then or later.                                            *)
(***************************************************************************)
C2_Step ==
    \A i \in 1..MaxSubmits :
        Decided(i) =>
            IF validationSchema(kind, subs[i].values[1]) = {}
            THEN subs'[i].phase = "inflight"
            ELSE /\ subs'[i].phase = "invalid"
                 /\ subs'[i].trace = << >>
                 /\ subs'[i].body = << >>
                 /\ isLoading' = isLoading

C2_State ==
    /\ \A i \in Phase("inflight") : validationSchema(kind, subs[i].values[1]) = {}
    /\ \A i \in Phase("invalid") : subs[i].trace = << >> /\ subs[i].body = << >>
    /\ \A i \in 1..Len(subs) : subs[i].trace # << >> => i \in Issued

C2_SubmitOnlyAfterValidation == []C2_State /\ [][C2_Step]_vars

C2_Witness ==
    \E i \in Phase("invalid") :
        /\ values # defaultValues(kind)
        /\ ~isLoading
        /\ subs[i].trace = << >>

(***************************************************************************)
(* C3: whenever the POST does not succeed (the fetch rejects, the body     *)
(* does not parse, or the server answers non-2xx) the failure notification *)
(* is shown, and neither the success notification nor onSuccess happens.   *)
(***************************************************************************)
C3_ErrorsSurfaceAsFailure ==
    \A i \in Phase("settled") :
        LET r == Response(i)
            t == subs[i].trace
        IN (r.rejected \/ ~r.json \/ ~r.ok) =>
              /\ Cardinality(Notifs(t, "error")) >= 1
              /\ Notifs(t, "success") = {}
              /\ Calls(t, "onSuccess") = {}

(***************************************************************************)
(* C4 as stated: for every POST whose response resolves and parses as      *)
(* JSON, onSuccess is called exactly once with {data: body} and exactly    *)
(* one success notification is enqueued, the callback first.               *)
(***************************************************************************)
CalledOnceWithBody(i) ==
    LET t == subs[i].trace IN
    /\ Cardinality(Calls(t, "onSuccess")) = 1
    /\ \A j \in Calls(t, "onSuccess") : t[j].arg = << [data |-> Response(i).data] >>

C4_Original ==
    \A i \in Phase("settled") :
        LET r == Response(i)
            t == subs[i].trace
        IN (~r.rejected /\ r.json) =>
              /\ CalledOnceWithBody(i)
              /\ Cardinality(Notifs(t, "success")) = 1
              /\ \A c \in Calls(t, "onSuccess") : \A n \in Notifs(t, "success") : c < n

(***************************************************************************)
(* C4 amended: for every POST whose response resolves and parses as JSON,  *)
(* onSuccess is called exactly once with {data: body}; if it returns       *)
(* normally exactly one success notification is enqueued, after the call;  *)
(* if it throws no success notification is enqueued.                       *)
(***************************************************************************)
C4_SuccessOnce ==
    \A i \in Phase("settled") :
        LET r == Response(i)
            t == subs[i].trace
        IN (~r.rejected /\ r.json) =>
              /\ CalledOnceWithBody(i)
              /\ Cardinality(Notifs(t, "success")) = (IF Throws(i) THEN 0 ELSE 1)
              /\ \A c \in Calls(t, "onSuccess") : \A n \in Notifs(t, "success") : c < n

C4_Witness ==
    \E i \in Phase("settled") :
        /\ ~Response(i).rejected /\ Response(i).json /\ ~Throws(i)
        /\ Cardinality(Notifs(subs[i].trace, "success")) = 1

(***************************************************************************)
(* C5: a submission whose fetch rejects gets exactly one failure           *)
(* notification and no onSuccess call, and every validated submit event    *)
(* issues exactly one POST whatever the outcome (no retry).                *)
(***************************************************************************)
C5_FailureOnceNoRetry ==
    /\ \A i \in Phase("settled") :
          Response(i).rejected =>
              /\ Cardinality(Notifs(subs[i].trace, "error")) = 1
              /\ Notifs(subs[i].trace, "success") = {}
              /\ Calls(subs[i].trace, "onSuccess") = {}
    /\ \A i \in Issued : Cardinality(Calls(subs[i].trace, "POST")) = 1
    /\ \A i \in 1..Len(subs) :
          i \notin Issued => Calls(subs[i].trace, "POST") = {}

C5_Witness ==
    \E i \in Phase("settled") :
        /\ Response(i).rejected
        /\ Cardinality(Notifs(subs[i].trace, "error")) = 1

(***************************************************************************)
(* C6: the validation predicate accepts a form input exactly when every    *)
(* required text field is non-empty (course, classroom, teacher; name and  *)
(* a well-formed email) and the numeric field is an integer greater than   *)
(* 0; the defaults are rejected and gender plays no part.                  *)
(***************************************************************************)
\* A decimal literal of digits only, not all of them "0".
PositiveInteger(raw) ==
    /\ Len(raw) > 0
    /\ \A i \in 1..Len(raw) : raw[i] \in Digits
    /\ \E i \in 1..Len(raw) : raw[i] # "0"

WellFormedEmails == { <<"a", "@", "b">>, <<"a", "@", "b", ".", "c">> }

Acceptable(k, v) ==
    IF k = "course"
    THEN /\ v.course # Str0 /\ v.classroom # Str0 /\ v.teacher # Str0
         /\ PositiveInteger(v.capacity)
    ELSE /\ v.name # Str0
         /\ v.email \in WellFormedEmails
         /\ PositiveInteger(v.age)

C6_Step ==
    \A i \in 1..MaxSubmits :
        Decided(i) =>
            (subs'[i].phase = "inflight" <=> Acceptable(kind, subs[i].values[1]))

C6_ValidationPredicate ==
    /\ [][C6_Step]_vars
    /\ [](~Acceptable(kind, defaultValues(kind)))

C6_Witness ==
    /\ kind = "student"
    /\ \E i \in Phase("inflight") : subs[i].values[1].gender = Str0

(***************************************************************************)
(* C7: the payload lists the selected objects as {id} references only, in  *)
(* the order and number of the selection; its other fields are the form's  *)
(* scalar values, course sent as name, capacity / age sent as a number.    *)
(***************************************************************************)
C7_PayloadIdsOnly ==
    \A i \in Phase("inflight") :
        LET v == subs[i].values[1]
            b == subs[i].body[1]
            list == ListField(kind)
            num == NumField(kind)
        IN /\ Len(b[list]) = Len(v[list])
           /\ \A j \in 1..Len(v[list]) :
                 /\ DOMAIN b[list][j] = {"id"}
                 /\ b[list][j].id = v[list][j].id
           /\ b[num] = [nan |-> FALSE, neg |-> FALSE,
                        whole |-> DigitsVal(v[num]), tenths |-> 0]
           /\ IF kind = "course"
              THEN /\ DOMAIN b = {"name", "classroom", "capacity", "teacher", "students"}
                   /\ b.name = v.course
                   /\ b.classroom = v.classroom
                   /\ b.teacher = v.teacher
              ELSE /\ DOMAIN b = {"name", "email", "age", "gender", "courses"}
                   /\ b.name = v.name
                   /\ b.email = v.email
                   /\ b.gender = v.gender

C7_Witness ==
    \E i \in Phase("inflight") :
        LET ids == subs[i].body[1][ListField(kind)] IN
        /\ Len(ids) = 2
        /\ ids[1].id > ids[2].id

(***************************************************************************)
(* C8 as stated: when the options fetch has errored, a 'Could not get ...  *)
(* data' notification has been shown and the option list is empty; the     *)
(* form stays usable, and the options fetch changes neither the loading    *)
(* flag nor any submission.                                                *)
(***************************************************************************)
C8_OriginalState ==
    /\ swr.error # 0 => optionsNotifs >= 1 /\ options = << >>
    /\ (~disabled /\ Len(subs) < MaxSubmits) => ENABLED Submit

C8_OriginalStep ==
    swr' # swr =>
        /\ subs' = subs
        /\ isLoading' = isLoading
        /\ disabled' = disabled
        /\ values' = values

C8_Original == []C8_OriginalState /\ [][C8_OriginalStep]_vars

(***************************************************************************)
(* C8 amended: when the options fetch errors, a 'Could not get ... data'   *)
(* notification is shown and the option list stays what it was (empty if   *)
(* no fetch has succeeded yet); the error changes neither the loading      *)
(* flag, the submit button nor any submission, a valid form can still be   *)
(* submitted, and no outcome of the options fetch alters a submission's    *)
(* payload or outcome.                                                     *)
(***************************************************************************)
C8_Step ==
    /\ (swr'.error # 0 /\ swr'.error # swr.error) =>
          /\ optionsNotifs' = optionsNotifs + 1
          /\ options' = options
    /\ swr' # swr =>
          /\ subs' = subs
          /\ isLoading' = isLoading
          /\ disabled' = disabled
          /\ values' = values

C8_State ==
    /\ swr.error # 0 => optionsNotifs >= 1
    /\ (swr.error # 0 /\ ~swr.hasData) => options = << >>
    /\ (~disabled /\ Len(subs) < MaxSubmits) => ENABLED Submit

C8_OptionsFetchIndependent == []C8_State /\ [][C8_Step]_vars

C8_Witness ==
    /\ swr.error # 0
    /\ options # << >>
    /\ \E i \in Phase("settled") :
          /\ Response(i).ok /\ Response(i).json
          /\ Notifs(subs[i].trace, "success") # {}

(***************************************************************************)
(* C9: the loading flag is false initially, becomes true only in the step  *)
(* in which a validated submission issues its POST, is false whenever no   *)
(* request is outstanding, and, the requests settling, always returns to   *)
(* false, whatever the outcome.                                            *)
(***************************************************************************)
C9_Rises ==
    (~isLoading /\ isLoading') =>
        \E i \in 1..MaxSubmits :
            /\ Decided(i)
            /\ subs'[i].phase = "inflight"
            /\ subs'[i].trace = postCall(kind)

C9_LoadingLifecycle ==
    /\ ~isLoading
    /\ [][C9_Rises]_vars
    /\ [](Phase("inflight") = {} => ~isLoading)
    /\ (isLoading ~> ~isLoading)

C9_Witness ==
    /\ ~isLoading
    /\ Phase("inflight") = {}
    /\ \E i \in Phase("settled") : Throws(i)
    /\ \E i \in Phase("settled") : Response(i).rejected

(***************************************************************************)
(* C10: every settled submission has exactly one submit notification,      *)
(* success or failure; when onSuccess throws, the callback has run, the    *)
(* success notification is skipped and the failure notification is shown.  *)
(***************************************************************************)
C10_ExactlyOneNotification ==
    \A i \in Phase("settled") :
        LET t == subs[i].trace IN
        /\ Cardinality(Notifs(t, "success")) + Cardinality(Notifs(t, "error")) = 1
        /\ Throws(i) =>
              /\ Cardinality(Calls(t, "onSuccess")) = 1
              /\ Notifs(t, "success") = {}
              /\ Cardinality(Notifs(t, "error")) = 1

C10_Witness ==
    \E i \in Phase("settled") :
        /\ Throws(i)
        /\ Cardinality(Notifs(subs[i].trace, "error")) = 1

====
